---- MODULE Spec2Model ----
(***************************************************************************)
(* A model of the sema evaluation harness (jobine/sema):                   *)
(*   - the scoring functions of benchmarks/measures.py,                    *)
(*   - HotpotQA.load_data / load_dataset / evaluate / run,                 *)
(*   - the resumable downloader of benchmarks/tools.py,                    *)
(*   - LLMConfig.load and the AsyncLLM provider registry,                  *)
(*   - the retrying __call__ of the four provider clients.                 *)
(* Strings are sequences of one-character strings, so that lower-casing,   *)
(* punctuation stripping and tokenising are computed, not assumed.         *)
(* Python floats are modelled by exact rationals <<num, den>>.             *)
(***************************************************************************)
EXTENDS Integers, Sequences, FiniteSets, TLC

\* ------------------------------------------------------------------------
\* Generic helpers
\* ------------------------------------------------------------------------

\* Python's None and a value that is not None: a sequence of length 0 or 1, so
\* that None differs from every value, the empty list and the empty string
\* included.
None == <<>>

Some(x) == <<x>>

\* No exception was raised.
NoExc == "no exception"

Min(a, b) == IF a <= b THEN a ELSE b

Max(a, b) == IF a >= b THEN a ELSE b

RECURSIVE GCD(_, _)
GCD(a, b) == IF b = 0 THEN a ELSE GCD(b, a % b)

\* A non-negative rational in lowest terms.
Rat(n, d) == LET g == GCD(n, d) IN IF g = 0 THEN <<0, 1>> ELSE <<n \div g, d \div g>>

RZero == Rat(0, 1)

ROne == Rat(1, 1)

RAdd(x, y) == Rat(x[1] * y[2] + y[1] * x[2], x[2] * y[2])

RMul(x, y) == Rat(x[1] * y[1], x[2] * y[2])

RDiv(x, y) == Rat(x[1] * y[2], x[2] * y[1])

RECURSIVE SeqSum(_)
SeqSum(s) == IF s = <<>> THEN RZero ELSE RAdd(Head(s), SeqSum(Tail(s)))

\* Python's seq[:k] for an int k (a negative k counts from the end).
SliceTo(s, k) ==
    IF k >= 0 THEN SubSeq(s, 1, Min(k, Len(s)))
    ELSE SubSeq(s, 1, Max(Len(s) + k, 0))

\* ------------------------------------------------------------------------
\* Characters (str.lower, string.punctuation, \b of the re module)
\* ------------------------------------------------------------------------

UpperChars == <<"A","B","C","D","E","F","G","H","I","J","K","L","M",
                "N","O","P","Q","R","S","T","U","V","W","X","Y","Z">>

LowerChars == <<"a","b","c","d","e","f","g","h","i","j","k","l","m",
                "n","o","p","q","r","s","t","u","v","w","x","y","z">>

Digits == {"0","1","2","3","4","5","6","7","8","9"}

\* string.punctuation, less the grave accent (the lexer of TLA+ has no string
\* literal for it).
Punctuation == {"!", "\"", "#", "$", "%", "&", "'", "(", ")", "*", "+", ",",
                "-", ".", "/", ":", ";", "<", "=", ">", "?", "@", "[", "\\",
                "]", "^", "_", "{", "|", "}", "~"}

Whitespace == {" ", "\t", "\n", "\r", "\f"}

LowerChar(c) ==
    IF \E k \in 1..26 : UpperChars[k] = c
    THEN LowerChars[CHOOSE k \in 1..26 : UpperChars[k] = c]
    ELSE c

\* str.lower()
Lower(s) == [k \in 1..Len(s) |-> LowerChar(s[k])]

IsWordChar(c) ==
    \/ \E k \in 1..26 : c = UpperChars[k] \/ c = LowerChars[k]
    \/ c \in Digits
    \/ c = "_"

\* ------------------------------------------------------------------------
\* measures.py: normalize_answer, f1_score, exact_match_score
\* ------------------------------------------------------------------------

RECURSIVE remove_punc(_)
remove_punc(text) ==
    IF text = <<>> THEN <<>>
    ELSE IF Head(text) \in Punctuation THEN remove_punc(Tail(text))
    ELSE <<Head(text)>> \o remove_punc(Tail(text))

\* The alternatives of the pattern \b(a|an|the)\b, in the order tried.
Articles == << <<"a">>, <<"a","n">>, <<"t","h","e">> >>

\* \b at the gap before text[p] (p in 1..Len(text)+1).
WordBoundary(text, p) ==
    LET before == p > 1 /\ IsWordChar(text[p - 1])
        after  == p <= Len(text) /\ IsWordChar(text[p])
    IN before # after

ArticleAt(text, p, w) ==
    /\ p + Len(w) - 1 <= Len(text)
    /\ SubSeq(text, p, p + Len(w) - 1) = w
    /\ WordBoundary(text, p)
    /\ WordBoundary(text, p + Len(w))

RECURSIVE remove_articles_from(_, _)
remove_articles_from(text, p) ==
    IF p > Len(text) THEN <<>>
    ELSE IF \E a \in 1..Len(Articles) : ArticleAt(text, p, Articles[a])
    THEN LET a == CHOOSE x \in 1..Len(Articles) :
                      /\ ArticleAt(text, p, Articles[x])
                      /\ \A y \in 1..(x - 1) : ~ArticleAt(text, p, Articles[y])
         IN <<" ">> \o remove_articles_from(text, p + Len(Articles[a]))
    ELSE <<text[p]>> \o remove_articles_from(text, p + 1)

\* remove_articles that removes nothing.
remove_articles_identity(text) == text

remove_articles(text) == remove_articles_from(text, 1)

\* str.split(): the maximal runs of non-whitespace characters.
RECURSIVE SplitFrom(_, _)
SplitFrom(text, cur) ==
    IF text = <<>> THEN (IF cur = <<>> THEN <<>> ELSE <<cur>>)
    ELSE IF Head(text) \in Whitespace
    THEN (IF cur = <<>> THEN <<>> ELSE <<cur>>) \o SplitFrom(Tail(text), <<>>)
    ELSE SplitFrom(Tail(text), Append(cur, Head(text)))

Split(text) == SplitFrom(text, <<>>)

\* ' '.join(tokens)
RECURSIVE Join(_)
Join(tokens) ==
    IF tokens = <<>> THEN <<>>
    ELSE IF Len(tokens) = 1 THEN tokens[1]
    ELSE tokens[1] \o <<" ">> \o Join(Tail(tokens))

white_space_fix(text) == Join(Split(text))

normalize_answer(s) == white_space_fix(remove_articles(remove_punc(Lower(s))))

\* Counter(tokens)[t]
Count(tokens, t) == Cardinality({k \in 1..Len(tokens) : tokens[k] = t})

RECURSIVE SumMin(_, _, _)
SumMin(toks, p, g) ==
    IF toks = {} THEN 0
    ELSE LET t == CHOOSE x \in toks : TRUE
         IN Min(Count(p, t), Count(g, t)) + SumMin(toks \ {t}, p, g)

\* The number of distinct tokens in both lists (multiplicities ignored).
NumSameDistinct(p, g) ==
    Cardinality({p[k] : k \in 1..Len(p)} \cap {g[k] : k \in 1..Len(g)})

\* sum((Counter(p) & Counter(g)).values())
NumSame(p, g) == SumMin({p[k] : k \in 1..Len(p)}, p, g)

\* The last lines of f1_score, from precision on.
HarmonicMean(num_same, prediction_tokens, ground_truth_tokens) ==
    LET precision == IF prediction_tokens # <<>>
                     THEN Rat(num_same, Len(prediction_tokens)) ELSE RZero
        recall    == IF ground_truth_tokens # <<>>
                     THEN Rat(num_same, Len(ground_truth_tokens)) ELSE RZero
    IN IF RAdd(precision, recall) = RZero THEN RZero
       ELSE RDiv(RMul(Rat(2, 1), RMul(precision, recall)), RAdd(precision, recall))

TokenF1(prediction_tokens, ground_truth_tokens, num_same) ==
    IF num_same = 0 THEN RZero
    ELSE HarmonicMean(num_same, prediction_tokens, ground_truth_tokens)

TokensF1(prediction_tokens, ground_truth_tokens) ==
    TokenF1(prediction_tokens, ground_truth_tokens,
            NumSame(prediction_tokens, ground_truth_tokens))

f1_score(prediction, ground_truth) ==
    TokensF1(Split(normalize_answer(prediction)), Split(normalize_answer(ground_truth)))

exact_match_score(prediction, ground_truth) ==
    IF normalize_answer(prediction) = normalize_answer(ground_truth) THEN ROne ELSE RZero

\* ------------------------------------------------------------------------
\* Data of the model: dataset records, file names, served resources
\* ------------------------------------------------------------------------

S_TheCat == <<"T","h","e"," ","C","a","t">>

S_cat == <<"c","a","t">>

S_light_blue == <<"l","i","g","h","t"," ","b","l","u","e">>

S_blue == <<"b","l","u","e">>

S_b_c_d == <<"b"," ","c"," ","d">>

S_a_b_c == <<"a"," ","b"," ","c">>

\* The records a dataset file can hold.  The second one has no '_id' and no
\* 'context' key (run() reads both with dict.get).
RecordTable ==
    << [_id |-> "r1", question |-> "q1", answer |-> S_TheCat, context |-> "ctx1"],
       [question |-> "q2", answer |-> S_light_blue],
       [_id |-> "r3", question |-> "q3", answer |-> S_b_c_d, context |-> "ctx3"] >>

\* A file is a sequence of bytes.  Byte k in 1..Len(RecordTable) encodes record k;
\* byte 0 closes a JSON array.  A .json file is one array; a .jsonl file is one
\* record per line, with no closing byte.
RecordBytes == 1..Len(RecordTable)

F_train == <<"t",".","j","s","o","n">>

F_validate == <<"v",".","j","s","o","n","l">>

F_test == <<"x",".","j","s","o","n">>

F_text == <<"x",".","t","x","t">>

FileNames == {F_train, F_validate, F_test, F_text}

Ext_json == <<".","j","s","o","n">>

Ext_jsonl == <<".","j","s","o","n","l">>

\* str.endswith
EndsWith(s, suffix) ==
    /\ Len(s) >= Len(suffix)
    /\ SubSeq(s, Len(s) - Len(suffix) + 1, Len(s)) = suffix

PartNames == {"train", "validate", "test"}

\* benchmark.py: class DatasetType.  A member is told apart from its raw value.
Member(v) == [enum |-> "DatasetType", value |-> v]

DatasetTypes == {Member(v) : v \in {"train", "validate", "test", "all"}}

\* The manifests (benchmarks.json) the model is run with: the entry of the
\* benchmark maps some of train/validate/test to {name, url}.
Entry(n, u) == [name |-> n, url |-> u]

ManifestChoices ==
    { [hotpotqa |-> [train |-> Entry(F_train, "u_train"),
                     validate |-> Entry(F_validate, "u_validate"),
                     test |-> Entry(F_test, "u_test")]],
      [hotpotqa |-> [train |-> Entry(F_train, "u_train"),
                     validate |-> Entry(F_validate, "u_validate")]],
      [hotpotqa |-> [validate |-> Entry(F_validate, "u_validate"),
                     test |-> Entry(F_text, "u_test")]],
      [other |-> [train |-> Entry(F_train, "u_train")]] }

Urls == {"u_train", "u_validate", "u_test"}

\* dict.get(key): None when the key is absent.
DictGet(d, key) == IF key \in DOMAIN d THEN Some(d[key]) ELSE None

\* ------------------------------------------------------------------------
\* tools.py: download_file, load_json
\* ------------------------------------------------------------------------

\* tools.py: max_retries
MaxRetries == 3

\* What the network does to one attempt: "ok"; "head_error" (requests.head
\* raises); "get_error" (requests.get or raise_for_status raises, nothing is
\* written); "cut" (the stream breaks after the first chunk was written).
NetOutcomes == {"ok", "head_error", "get_error", "cut"}

NetOutcome(script) == IF script = <<>> THEN "ok" ELSE Head(script)

NetRest(script) == IF script = <<>> THEN <<>> ELSE Tail(script)

\* "headers = {'Range': f'bytes={resume_pos}-'} if resume_pos > 0 else {}"
RangeHeader(resume_pos) == IF resume_pos > 0 THEN Some(resume_pos) ELSE None

\* mode 'wb' whatever resume_pos is: the file is truncated.
WriteBaseTruncate(resume_pos, file) == <<>>

\* "mode = 'ab' if resume_pos > 0 else 'wb'": the bytes open() leaves in the file.
WriteBase(resume_pos, file) == IF resume_pos > 0 THEN file[1] ELSE <<>>

\* The first failed attempt is taken for the last.
LastAttemptFirst(attempt) == attempt = 0

\* "if attempt == max_retries - 1"
LastAttempt(attempt) == attempt = MaxRetries - 1

\* One pass of the body of the for loop of download_file.  file is None or
\* Some(the bytes of the destination); res is the served resource [body, has_length].
\* Returns the file after the attempt, whether the attempt raised, and the
\* requests it made.
DownloadAttempt(file, res, outcome) ==
    LET resume_pos == IF file = None THEN 0 ELSE Len(file[1])
        head == [method |-> "HEAD", range |-> None]
        total_size == IF res.has_length THEN Len(res.body) ELSE 0
        get == [method |-> "GET", range |-> RangeHeader(resume_pos)]
        served == SubSeq(res.body, resume_pos + 1, Len(res.body))
        base == WriteBase(resume_pos, file)
    IN IF outcome = "head_error"
       THEN [file |-> file, raised |-> TRUE, log |-> <<head>>]
       ELSE IF ~(resume_pos < total_size)
       THEN [file |-> file, raised |-> FALSE, log |-> <<head>>]
       ELSE IF outcome = "get_error"
       THEN [file |-> file, raised |-> TRUE, log |-> <<head, get>>]
       ELSE IF outcome = "cut"
       THEN [file |-> Some(base \o SubSeq(served, 1, 1)), raised |-> TRUE, log |-> <<head, get>>]
       ELSE [file |-> Some(base \o served), raised |-> FALSE, log |-> <<head, get>>]

RECURSIVE DownloadFrom(_, _, _, _, _)
\* The except block of download_file, after attempt (0-based) ended as a.
AfterAttempt(a, res, script, attempt, log) ==
    IF ~a.raised \/ LastAttempt(attempt)
    THEN [file |-> a.file, raised |-> a.raised, script |-> script,
          log |-> log \o a.log, attempts |-> attempt + 1]
    ELSE DownloadFrom(a.file, res, script, attempt + 1, log \o a.log)

DownloadFrom(file, res, script, attempt, log) ==
    AfterAttempt(DownloadAttempt(file, res, NetOutcome(script)), res, NetRest(script),
                 attempt, log)

download_file(file, res, script) == DownloadFrom(file, res, script, 0, <<>>)

\* json.load / json.loads of the bytes of a file
ParseJson(bytes) ==
    IF /\ Len(bytes) >= 1
       /\ bytes[Len(bytes)] = 0
       /\ \A k \in 1..(Len(bytes) - 1) : bytes[k] \in RecordBytes
    THEN [exc |-> NoExc, data |-> Some([k \in 1..(Len(bytes) - 1) |-> RecordTable[bytes[k]]])]
    ELSE [exc |-> "JSONDecodeError", data |-> None]

ParseJsonLines(bytes) ==
    IF \A k \in 1..Len(bytes) : bytes[k] \in RecordBytes
    THEN [exc |-> NoExc, data |-> Some([k \in 1..Len(bytes) |-> RecordTable[bytes[k]]])]
    ELSE [exc |-> "JSONDecodeError", data |-> None]

load_json(dsk, file_path) ==
    IF dsk[file_path] = None THEN [exc |-> "FileNotFoundError", data |-> None]
    ELSE IF EndsWith(file_path, Ext_jsonl) THEN ParseJsonLines(dsk[file_path][1])
    ELSE IF EndsWith(file_path, Ext_json) THEN ParseJson(dsk[file_path][1])
    ELSE [exc |-> "ValueError", data |-> None]

\* ------------------------------------------------------------------------
\* hotpotqa.py: load_dataset, load_data
\* ------------------------------------------------------------------------

\* The part of the state load_data works on: w.disk (file name -> None or
\* Some(bytes)), w.faults (what the network does to the coming attempts), w.parts
\* (the three partitions), w.reads and w.gets (how often a partition's file was
\* parsed and requested with GET), w.exc (the exception raised, or NoExc).
CountGets(log) == Cardinality({k \in 1..Len(log) : log[k].method = "GET"})

\* The state after download_file(url, file_path) ended as d.
AfterDownload(w, part, file_path, d) ==
    [w EXCEPT !.disk[file_path] = d.file, !.faults = d.script,
              !.gets[part] = @ + CountGets(d.log),
              !.exc = IF d.raised THEN "RequestException" ELSE NoExc]

\* "if not os.path.exists(file_path) or force_reload: download_file(...)"
EnsureLocal(w, srv, part, entry, force_reload) ==
    IF w.disk[entry.name] = None \/ force_reload
    THEN AfterDownload(w, part, entry.name,
                       download_file(w.disk[entry.name], srv[entry.url], w.faults))
    ELSE w

AfterParse(w, part, j) ==
    [w |-> [w EXCEPT !.reads[part] = @ + 1, !.exc = j.exc], data |-> j.data]

\* "data = load_json(file_path)", unless the download raised.
ParseLocal(w, part, file_path) ==
    IF w.exc # NoExc THEN [w |-> w, data |-> None]
    ELSE AfterParse(w, part, load_json(w.disk, file_path))

\* load_dataset that looks for a file of the partition before it looks at the
\* entry.
load_dataset_probing(w, srv, part, dataset, force_reload) ==
    IF dataset = None THEN [w |-> [w EXCEPT !.reads[part] = @ + 1], data |-> None]
    ELSE ParseLocal(EnsureLocal(w, srv, part, dataset[1], force_reload),
                    part, dataset[1].name)

load_dataset(w, srv, part, dataset, force_reload) ==
    IF dataset = None THEN [w |-> w, data |-> None]
    ELSE ParseLocal(EnsureLocal(w, srv, part, dataset[1], force_reload),
                    part, dataset[1].name)

\* The assignment to self._train_data / _validate_data / _test_data, which an
\* exception skips.
StorePart(r, part) ==
    IF r.w.exc # NoExc THEN r.w ELSE [r.w EXCEPT !.parts[part] = r.data]

\* One of the three "if self.dataset_type in (...)" blocks of load_data.
LoadPart(w, srv, datasets, dtype, part, force_reload) ==
    IF w.exc # NoExc \/ dtype \notin {Member("all"), Member(part)} THEN w
    ELSE StorePart(load_dataset(w, srv, part, DictGet(datasets, part), force_reload), part)

LoadParts(w, srv, datasets, dtype, force_reload) ==
    LoadPart(LoadPart(LoadPart(w, srv, datasets, dtype, "train", force_reload),
                      srv, datasets, dtype, "validate", force_reload),
             srv, datasets, dtype, "test", force_reload)

load_data(w, srv, benchmarks, dtype, force_reload) ==
    IF "hotpotqa" \in DOMAIN benchmarks
    THEN LoadParts(w, srv, benchmarks["hotpotqa"], dtype, force_reload)
    ELSE [w EXCEPT !.exc = "ValueError"]

\* hotpotqa.py: evaluate
PASS == "PASS"

FAIL == "FAIL"

evaluate(prediction, label) ==
    LET pred_str  == IF prediction # None THEN prediction[1] ELSE <<>>
        label_str == IF label # None THEN label[1] ELSE <<>>
        em == exact_match_score(pred_str, label_str)
        f1 == f1_score(pred_str, label_str)
    IN [em |-> em, f1 |-> f1, result |-> IF em = ROne THEN PASS ELSE FAIL]

\* ------------------------------------------------------------------------
\* State
\* ------------------------------------------------------------------------

VARIABLES
    \* the benchmark object and its environment
    constructed,    \* HotpotQA.__init__ has returned
    init_exc,       \* the exception HotpotQA.__init__ raised, or NoExc
    dataset_type,   \* self.dataset_type
    benchmarks,     \* the content of benchmarks.json
    disk,           \* file name -> None or Some(bytes)
    server,         \* url -> [body, has_length]
    faults,         \* what the network does to the coming download attempts
    parts,          \* _train_data, _validate_data, _test_data
    reads,          \* history: how often each partition's file was parsed
    gets,           \* history: how many GETs were sent for each partition
    loadCalls,      \* history: load_data calls after construction
    forced,         \* history: some load_data call had force_reload = True
    lastLoad,       \* history: the last load_data call after construction
    \* one call of run()
    pc,             \* "idle", "loop", "await", "done", "raised"
    run_dataset,    \* the argument dataset
    run_num_samples, \* the argument num_samples (None or Some(int))
    data,           \* the local data
    i,              \* completed passes of the for loop (the next 0-based index)
    results,        \* the local results
    total_em,
    total_f1,
    started,        \* history: the indices whose callback was started, in order
    inflight,       \* history: callbacks started and not yet completed
    raisedAt,       \* history: the indices whose callback raised
    ret,            \* None or Some(the value run() returned)
    \* one provider client and one call of it
    adapter,        \* the class of the client
    cfg_temperature, \* self.config.temperature (None or Some(t))
    ipc,            \* "idle", "ready", "sending", "done", "raised"
    override,       \* the caller's override dict (the same object in every attempt)
    override0,      \* history: the override dict as the caller passed it
    sent,           \* history: the requests sent on the network
    outcomes,       \* history: how each finished attempt ended
    iret,           \* None or Some(the text returned to the caller)
    iexc,           \* None or Some(the exception raised to the caller)
    \* the configuration files and the class state of LLMConfig
    files,          \* resolved path -> None or Some(the parsed content of the file)
    file_cache,     \* LLMConfig._file_cache
    instance_cache, \* LLMConfig._instance_cache
    nextId,         \* the identity the next LLMConfig object gets
    first,          \* history: (path, model) -> the first instance load returned for it
    lastCall,       \* history: the last load call, or None
    \* the class state of AsyncLLM
    registry,       \* AsyncLLM._provider_registry
    regLog,         \* history: the register_provider calls, in order
    created,        \* None or Some(the client the last AsyncLLM(...) returned)
    createExc,      \* the exception the last AsyncLLM(...) raised, or NoExc
    regsAtCreate,   \* history: the register_provider calls made before that call
    \* one call of download_file
    dpc,            \* "idle", "trying", "returned", "raised"
    resource,       \* what the url serves: [body, has_length]
    dest,           \* the destination file: None or Some(bytes)
    dest0,          \* history: the destination file at the call
    attempt,        \* the loop variable attempt
    attempts,       \* history: the attempts made, in order
    dexc,           \* None or Some(the exception raised to the caller)
    \* one evaluation of the measures
    mpc,            \* "idle", "done"
    m_prediction,   \* the argument prediction
    m_ground_truth, \* the argument ground_truth
    m_f1,           \* None or Some(what f1_score returned)
    m_em,           \* None or Some(what exact_match_score returned)
    \* one call of DatasetType.from_value
    fv_value,       \* the argument value
    fv_result,      \* None or Some(what from_value returned)
    \* one Agent
    agent_model,    \* self.config.model
    llm_cache,      \* self._llm: None or Some(client)
    nextClient,     \* the identity the next client object gets
    agentLog        \* history: the accesses of llm and the reset() calls, in order

benchVars == <<constructed, init_exc, dataset_type, benchmarks, disk, server, faults, parts,
               reads, gets, loadCalls, forced, lastLoad>>

runVars == <<pc, run_dataset, run_num_samples, data, i, results, total_em, total_f1,
             started, inflight, raisedAt, ret>>

invokeVars == <<adapter, cfg_temperature, ipc, override, override0, sent, outcomes,
                iret, iexc>>

configVars == <<files, file_cache, instance_cache, nextId, first, lastCall>>

factoryVars == <<registry, regLog, created, createExc, regsAtCreate>>

downloadVars == <<dpc, resource, dest, dest0, attempt, attempts, dexc>>

measureVars == <<mpc, m_prediction, m_ground_truth, m_f1, m_em>>

selectorVars == <<fv_value, fv_result>>

agentVars == <<agent_model, llm_cache, nextClient, agentLog>>

\* ------------------------------------------------------------------------
\* Bounds and the inputs the model is run with
\* ------------------------------------------------------------------------

\* The longest script of network faults.
MaxFaults == 3

\* load_data calls after construction.
MaxLoadCalls == 2

\* The largest num_samples run() is called with.
MaxLimit == 4

B_train == <<1, 2, 3, 0>>

B_validate == <<1, 2>>

B_test == <<0>>

B_new == <<3, 0>>

InitialBody == [u \in Urls |->
    IF u = "u_train" THEN B_train ELSE IF u = "u_validate" THEN B_validate ELSE B_test]

UrlOf(f) == IF f = F_train THEN "u_train" ELSE IF f = F_validate THEN "u_validate" ELSE "u_test"

\* The destination files at the start: all absent, all complete, or all holding
\* the first byte only (an interrupted download).
DiskChoices ==
    { [f \in FileNames |-> None],
      [f \in FileNames |-> Some(InitialBody[UrlOf(f)])],
      [f \in FileNames |-> Some(SubSeq(InitialBody[UrlOf(f)], 1, 1))] }

ServerChoices == { [u \in Urls |-> [body |-> InitialBody[u], has_length |-> h]] : h \in BOOLEAN }

RECURSIVE SeqsUpTo(_, _)
SeqsUpTo(S, n) ==
    IF n = 0 THEN {<<>>}
    ELSE LET shorter == SeqsUpTo(S, n - 1)
         IN shorter \cup {Append(q, x) : q \in {r \in shorter : Len(r) = n - 1}, x \in S}

FaultChoices == SeqsUpTo(NetOutcomes \ {"ok"}, MaxFaults)

NoParts == [p \in PartNames |-> None]

ZeroCounts == [p \in PartNames |-> 0]

NoLoad == [force |-> FALSE, exc |-> NoExc, before |-> NoParts,
           readsBefore |-> ZeroCounts, getsBefore |-> ZeroCounts, called |-> FALSE,
           diskBefore |-> [f \in FileNames |-> None],
           diskAfter |-> [f \in FileNames |-> None],
           served |-> [u \in Urls |-> <<>>]]

\* What the callback passed to run() may answer, and the messages of the
\* exceptions it may raise.
Predictions == {Some(S_cat), Some(S_blue), Some(S_a_b_c), None}

S_boom == <<"b","o","o","m">>

Messages == {<<>>, S_boom}

RunDatasets == {"train", "validate", "test", "dev"}

SampleLimits == {None, Some(-1), Some(0), Some(2), Some(MaxLimit)}

\* ------------------------------------------------------------------------
\* Benchmark.__init__ / HotpotQA.load_data
\* ------------------------------------------------------------------------

BenchInit ==
    /\ constructed = FALSE
    /\ init_exc = NoExc
    /\ dataset_type = Member("all")
    /\ benchmarks \in ManifestChoices
    /\ disk \in DiskChoices
    /\ server \in ServerChoices
    /\ parts = NoParts
    /\ reads = ZeroCounts
    /\ gets = ZeroCounts
    /\ loadCalls = 0
    /\ forced = FALSE
    /\ lastLoad = NoLoad

RunIdle ==
    /\ pc = "idle"
    /\ run_dataset = "validate"
    /\ run_num_samples = None
    /\ data = <<>>
    /\ i = 0
    /\ results = <<>>
    /\ total_em = RZero
    /\ total_f1 = RZero
    /\ started = <<>>
    /\ inflight = 0
    /\ raisedAt = {}
    /\ ret = None

World(ps) == [disk |-> disk, faults |-> faults, parts |-> ps,
              reads |-> reads, gets |-> gets, exc |-> NoExc]

\* The state load_data leaves.
Loaded(w) ==
    /\ disk' = w.disk
    /\ faults' = w.faults
    /\ reads' = w.reads
    /\ gets' = w.gets

Constructed(w, dtype) ==
    /\ constructed' = (w.exc = NoExc)
    /\ init_exc' = w.exc
    /\ dataset_type' = IF w.exc = NoExc THEN dtype ELSE dataset_type
    /\ parts' = IF w.exc = NoExc THEN w.parts ELSE NoParts
    /\ Loaded(w)

\* HotpotQA(dataset_type=dtype): Benchmark.__init__ sets the three partitions to
\* None and calls load_data().  When load_data raises, no object is made (and
\* the model follows this one constructor call no further).
Construct(dtype) ==
    /\ ~constructed
    /\ init_exc = NoExc
    /\ Constructed(load_data(World(NoParts), server, benchmarks, dtype, FALSE), dtype)
    /\ UNCHANGED <<benchmarks, server, loadCalls, forced, lastLoad>>

Reloaded(w, force_reload) ==
    /\ parts' = w.parts
    /\ Loaded(w)
    /\ lastLoad' = [force |-> force_reload, exc |-> w.exc, before |-> parts,
                    readsBefore |-> reads, getsBefore |-> gets, called |-> TRUE,
                    diskBefore |-> disk, diskAfter |-> w.disk,
                    served |-> [u \in Urls |-> server[u].body]]

\* A later call of load_data(force_reload).
LoadData(force_reload) ==
    /\ constructed
    /\ loadCalls < MaxLoadCalls
    /\ Reloaded(load_data(World(parts), server, benchmarks, dataset_type, force_reload),
                force_reload)
    /\ loadCalls' = loadCalls + 1
    /\ forced' = (forced \/ force_reload)
    /\ UNCHANGED <<constructed, init_exc, dataset_type, benchmarks, server>>

\* The manifest entries the constructed benchmark loads.
UsedEntries ==
    IF "hotpotqa" \in DOMAIN benchmarks
    THEN {benchmarks["hotpotqa"][p] :
            p \in {q \in DOMAIN benchmarks["hotpotqa"] :
                     dataset_type \in {Member("all"), Member(q)}}}
    ELSE {}

\* The environment, between two calls of load_data: the publisher replaces a
\* served file; somebody removes a local file.
ServerUpdate(u) ==
    /\ constructed
    /\ loadCalls < MaxLoadCalls
    /\ \E e \in UsedEntries : e.url = u
    /\ server[u].body # B_new
    /\ server' = [server EXCEPT ![u].body = B_new]
    /\ UNCHANGED <<constructed, init_exc, dataset_type, benchmarks, disk, faults, parts,
                   reads, gets, loadCalls, forced, lastLoad>>

DeleteFile(f) ==
    /\ constructed
    /\ loadCalls < MaxLoadCalls
    /\ \E e \in UsedEntries : e.name = f
    /\ disk[f] # None
    /\ disk' = [disk EXCEPT ![f] = None]
    /\ UNCHANGED <<constructed, init_exc, dataset_type, benchmarks, server, faults, parts,
                   reads, gets, loadCalls, forced, lastLoad>>

\* benchmark.py: the properties train_data, validate_data, test_data
train_data == parts["train"]

validate_data == parts["validate"]

test_data == parts["test"]

\* ------------------------------------------------------------------------
\* HotpotQA.run
\* ------------------------------------------------------------------------

\* SelectData without "if data is None: raise": an unloaded partition is run
\* as an empty one.
SelectDataNoNoneCheck(dataset) ==
    IF dataset \in PartNames
    THEN [exc |-> NoExc, data |-> IF parts[dataset] = None THEN <<>> ELSE parts[dataset][1]]
    ELSE [exc |-> "ValueError", data |-> <<>>]

\* "Get the appropriate dataset": the if/elif chain and the None check.
SelectData(dataset) ==
    IF dataset = "train" THEN
        (IF train_data = None THEN [exc |-> "ValueError", data |-> <<>>]
         ELSE [exc |-> NoExc, data |-> train_data[1]])
    ELSE IF dataset = "validate" THEN
        (IF validate_data = None THEN [exc |-> "ValueError", data |-> <<>>]
         ELSE [exc |-> NoExc, data |-> validate_data[1]])
    ELSE IF dataset = "test" THEN
        (IF test_data = None THEN [exc |-> "ValueError", data |-> <<>>]
         ELSE [exc |-> NoExc, data |-> test_data[1]])
    ELSE [exc |-> "ValueError", data |-> <<>>]

\* "Limit samples if specified": data[:num_samples]
LimitSamples(d, num_samples) ==
    IF num_samples # None THEN SliceTo(d, num_samples[1]) ELSE d

\* item.get('_id', i)
ItemId(item, idx) == IF "_id" \in DOMAIN item THEN [_id |-> item._id] ELSE [index |-> idx]

\* The result of a pass whose callback returned prediction.
PassResult(item, idx, prediction) ==
    LET eval_result == evaluate(prediction, Some(item.answer))
    IN [id |-> ItemId(item, idx), question |-> item.question,
        prediction |-> prediction, ground_truth |-> item.answer,
        em |-> eval_result.em, f1 |-> eval_result.f1, result |-> eval_result.result]

\* The result of a pass whose callback raised an exception e with str(e) = msg.
ExceptResult(item, idx, msg) ==
    [id |-> ItemId(item, idx), question |-> item.question,
     prediction |-> Some(<<>>), ground_truth |-> item.answer,
     em |-> RZero, f1 |-> RZero, result |-> FAIL, error |-> msg]

\* "Calculate aggregate metrics" and the returned dictionary.
RunReturnValue(res, tem, tf1) ==
    LET n == Len(res)
    IN [metrics |->
          [exact_match |-> IF n > 0 THEN RDiv(tem, Rat(n, 1)) ELSE RZero,
           f1 |-> IF n > 0 THEN RDiv(tf1, Rat(n, 1)) ELSE RZero,
           num_samples |-> n,
           num_passed |-> Cardinality({k \in 1..n : res[k].result = PASS})],
        results |-> res]

\* CanStartCallback of a loop that does not await the callback it started.
CanStartCallbackNoAwait == pc \in {"loop", "await"} /\ i < Len(data)

\* The loop may start the callback of the next item.
CanStartCallback == pc = "loop" /\ i < Len(data)

\* run(callback, dataset, num_samples) up to the first pass of the loop.
RunCall(dataset, num_samples) ==
    /\ constructed
    /\ pc = "idle"
    /\ run_dataset' = dataset
    /\ run_num_samples' = num_samples
    /\ LET sel == SelectData(dataset)
       IN IF sel.exc # NoExc
          THEN pc' = "raised" /\ data' = <<>>
          ELSE pc' = "loop" /\ data' = LimitSamples(sel.data, num_samples)
    /\ i' = 0
    /\ results' = <<>>
    /\ total_em' = RZero
    /\ total_f1' = RZero
    /\ UNCHANGED <<started, inflight, raisedAt, ret>>

\* "prediction = await callback(question, context)" is reached.
CallbackStart ==
    /\ CanStartCallback
    /\ pc' = "await"
    /\ started' = Append(started, i)
    /\ inflight' = inflight + 1
    /\ UNCHANGED <<run_dataset, run_num_samples, data, i, results, total_em, total_f1,
                   raisedAt, ret>>

\* The callback returns prediction: the rest of the try block, and the append.
CallbackReturn(prediction) ==
    /\ pc = "await"
    /\ LET result == PassResult(data[i + 1], i, prediction)
       IN /\ results' = Append(results, result)
          /\ total_em' = RAdd(total_em, result.em)
          /\ total_f1' = RAdd(total_f1, result.f1)
    /\ i' = i + 1
    /\ inflight' = inflight - 1
    /\ pc' = "loop"
    /\ UNCHANGED <<run_dataset, run_num_samples, data, started, raisedAt, ret>>

\* The callback raises an exception with message msg: the except block, and
\* the append.
CallbackRaise(msg) ==
    /\ pc = "await"
    /\ results' = Append(results, ExceptResult(data[i + 1], i, msg))
    /\ raisedAt' = raisedAt \cup {i}
    /\ i' = i + 1
    /\ inflight' = inflight - 1
    /\ pc' = "loop"
    /\ UNCHANGED <<run_dataset, run_num_samples, data, total_em, total_f1, started, ret>>

\* The loop is over: run() returns.
RunReturn ==
    /\ pc = "loop"
    /\ i = Len(data)
    /\ ret' = Some(RunReturnValue(results, total_em, total_f1))
    /\ pc' = "done"
    /\ UNCHANGED <<run_dataset, run_num_samples, data, i, results, total_em, total_f1,
                   started, inflight, raisedAt>>

\* ------------------------------------------------------------------------
\* models/*_model.py: the provider clients
\* ------------------------------------------------------------------------

\* A dict is a function on its keys; dict.update and dict.pop.
EmptyDict == <<>>

DictUpdate(d, o) ==
    [k \in (DOMAIN d) \cup (DOMAIN o) |-> IF k \in DOMAIN o THEN o[k] ELSE d[k]]

DictWithout(d, key) == [k \in (DOMAIN d) \ {key} |-> d[k]]

DictPop(d, key, default) == IF key \in DOMAIN d THEN d[key] ELSE default

Adapters == {"AsyncOpenAILLM", "AsyncAnthropicLLM", "AsyncGeminiLLM", "AsyncOllamaLLM"}

\* The decorator of every __call__:
\* @retry(reraise=True, stop=stop_after_attempt(3), ...,
\*        retry=retry_if_exception_type(Exception))
StopAfterAttempt == 3

\* reraise=False: tenacity raises RetryError in place of the last exception.
ReraiseOff == FALSE

Reraise == TRUE

\* [{'role': 'user', 'content': prompt}]
UserMessages(prompt) == <<[role |-> "user", content |-> prompt]>>

\* The dict with 'temperature' when the configuration has one.
TemperatureDict(temp) == IF temp # None THEN [temperature |-> temp] ELSE EmptyDict

\* AsyncOpenAILLM.__call__: the payload passed to chat.completions.create
OpenAIPayload(name, prompt, temp, payload_override) ==
    DictUpdate([model |-> name, messages |-> UserMessages(prompt), temperature |-> temp],
               payload_override)

\* AsyncAnthropicLLM.__call__: the payload passed to messages.create
AnthropicPayload(name, prompt, temp, payload_override) ==
    DictUpdate(DictUpdate([model |-> name, messages |-> UserMessages(prompt),
                           max_tokens |-> 4096],
                          TemperatureDict(temp)),
               payload_override)

\* AsyncGeminiLLM.__call__: "if config_dict: payload['config'] = ..."
GeminiWithConfig(payload, config_dict) ==
    IF config_dict # EmptyDict THEN DictUpdate(payload, [config |-> config_dict])
    ELSE payload

\* AsyncGeminiLLM.__call__: the payload passed to generate_content.
\* payload_override.pop('config', {}) has removed 'config' from the caller's
\* dict before payload.update(payload_override).
GeminiPayload(name, prompt, temp, payload_override) ==
    DictUpdate(GeminiWithConfig([model |-> name, contents |-> prompt],
                                DictUpdate(TemperatureDict(temp),
                                           DictPop(payload_override, "config", EmptyDict))),
               DictWithout(payload_override, "config"))

\* AsyncOllamaLLM.__call__: "options=options if options else None"
OllamaOptions(options) == IF options # EmptyDict THEN Some(options) ELSE None

\* AsyncOllamaLLM.__call__: "if messages_override: messages = messages_override"
OllamaMessages(prompt, messages_override) ==
    IF messages_override # None /\ messages_override[1] # <<>>
    THEN messages_override[1] ELSE UserMessages(prompt)

\* AsyncOllamaLLM.__call__: the keyword arguments passed to chat.  kwargs is
\* the dict of this attempt (a fresh one for every attempt).
OllamaRequest(name, prompt, temp, kwargs) ==
    DictUpdate(
        [model |-> name,
         messages |-> OllamaMessages(prompt, DictPop(kwargs, "messages", None)),
         options |-> OllamaOptions(DictUpdate(TemperatureDict(temp),
                                              DictPop(kwargs, "options", EmptyDict)))],
        DictWithout(DictWithout(kwargs, "options"), "messages"))

\* The request one attempt of cls.__call__(prompt, ...) sends.
BuildRequest(cls, name, prompt, temp, ovr) ==
    IF cls = "AsyncOpenAILLM" THEN OpenAIPayload(name, prompt, temp, ovr)
    ELSE IF cls = "AsyncAnthropicLLM" THEN AnthropicPayload(name, prompt, temp, ovr)
    ELSE IF cls = "AsyncGeminiLLM" THEN GeminiPayload(name, prompt, temp, ovr)
    ELSE OllamaRequest(name, prompt, temp, ovr)

\* The caller's override dict after one attempt has built its request.
OverrideAfter(cls, ovr) ==
    IF cls = "AsyncGeminiLLM" THEN DictWithout(ovr, "config") ELSE ovr

\* A response is an object of the provider's SDK.  text is what the field the
\* class reads first holds (choices[0].message.content, the text of the text
\* blocks, response.text, response.message.content); fallback is what the
\* second place holds (choices[0].text, candidates[0].content.parts[0].text).
\* None stands for a field that is missing or None.
Truthy(field) == field # None /\ field[1] # ""

Returned(text) == [exc |-> NoExc, text |-> text]

MissingContent == [exc |-> "ValueError", text |-> ""]

\* AsyncOpenAILLM._extract_content: "getattr(...) or (...)" turns an empty
\* content or text into None.
ExtractOpenAI(response) ==
    IF Truthy(response.text) THEN Returned(response.text[1])
    ELSE IF Truthy(response.fallback) THEN Returned(response.fallback[1])
    ELSE MissingContent

\* AsyncAnthropicLLM._extract_content
ExtractAnthropic(response) ==
    IF Truthy(response.text) THEN Returned(response.text[1]) ELSE MissingContent

\* AsyncGeminiLLM._extract_content: str(parts[0].text) is returned as it is.
ExtractGemini(response) ==
    IF Truthy(response.text) THEN Returned(response.text[1])
    ELSE IF response.fallback # None THEN Returned(response.fallback[1])
    ELSE MissingContent

\* AsyncOllamaLLM._extract_content
ExtractOllama(response) ==
    IF Truthy(response.text) THEN Returned(response.text[1]) ELSE MissingContent

\* cls._extract_content(response): the text, or ValueError.
ExtractContent(cls, response) ==
    IF cls = "AsyncOpenAILLM" THEN ExtractOpenAI(response)
    ELSE IF cls = "AsyncAnthropicLLM" THEN ExtractAnthropic(response)
    ELSE IF cls = "AsyncGeminiLLM" THEN ExtractGemini(response)
    ELSE ExtractOllama(response)

\* The responses of the network: with a text, with an empty text, with no
\* text, with an empty text in the second place only.
Responses ==
    {[text |-> Some("hello"), fallback |-> None],
     [text |-> Some(""), fallback |-> None],
     [text |-> None, fallback |-> None],
     [text |-> None, fallback |-> Some("")]}

\* The override dicts a caller passes (payload_override; for the Ollama client
\* the keyword arguments of the call).
OverrideChoices(cls) ==
    IF cls = "AsyncOllamaLLM"
    THEN {EmptyDict, [options |-> [temperature |-> Some(0)]],
          [messages |-> Some(UserMessages("chat"))], [format |-> "json", options |-> [seed |-> 7]]}
    ELSE IF cls = "AsyncGeminiLLM"
    THEN {EmptyDict, [config |-> [temperature |-> Some(0)]], [model |-> "other"],
          [config |-> [seed |-> 7], contents |-> "chat"]}
    ELSE {EmptyDict, [temperature |-> Some(0)], [model |-> "other"],
          [max_tokens |-> 16, temperature |-> None]}

InvokeIdle ==
    /\ adapter = "AsyncOpenAILLM"
    /\ cfg_temperature = None
    /\ ipc = "idle"
    /\ override = EmptyDict
    /\ override0 = EmptyDict
    /\ sent = <<>>
    /\ outcomes = <<>>
    /\ iret = None
    /\ iexc = None

\* A client of one of the four classes exists; its configuration has a
\* temperature or none.
InvokeInit ==
    /\ adapter \in Adapters
    /\ cfg_temperature \in {None, Some(1)}
    /\ ipc = "idle"
    /\ override = EmptyDict
    /\ override0 = EmptyDict
    /\ sent = <<>>
    /\ outcomes = <<>>
    /\ iret = None
    /\ iexc = None

\* await llm(prompt, payload_override=ovr)  (Ollama: await llm(prompt, **ovr))
InvokeCall(ovr) ==
    /\ ipc = "idle"
    /\ override' = ovr
    /\ override0' = ovr
    /\ ipc' = "ready"
    /\ UNCHANGED <<adapter, cfg_temperature, sent, outcomes, iret, iexc>>

\* One attempt runs __call__ up to the await of the network call.
SendRequest ==
    /\ ipc = "ready"
    /\ sent' = Append(sent, BuildRequest(adapter, "m", "prompt", cfg_temperature, override))
    /\ override' = OverrideAfter(adapter, override)
    /\ ipc' = "sending"
    /\ UNCHANGED <<adapter, cfg_temperature, override0, outcomes, iret, iexc>>

\* The attempt raised e: tenacity stops after StopAfterAttempt attempts and
\* re-raises the last exception, else it waits and retries.
AttemptFailed(e) ==
    /\ outcomes' = Append(outcomes, e)
    /\ IF Len(sent) >= StopAfterAttempt
       THEN /\ ipc' = "raised"
            /\ iexc' = IF Reraise THEN Some([type |-> e.type, attempt |-> e.attempt])
                       ELSE Some([type |-> "RetryError", attempt |-> e.attempt])
       ELSE /\ ipc' = "ready"
            /\ iexc' = iexc
    /\ UNCHANGED <<adapter, cfg_temperature, override, override0, sent, iret>>

AttemptReturned(text, response) ==
    /\ outcomes' = Append(outcomes, [type |-> "ok", attempt |-> Len(sent),
                                     response |-> Some(response)])
    /\ iret' = Some(text)
    /\ ipc' = "done"
    /\ UNCHANGED <<adapter, cfg_temperature, override, override0, sent, iexc>>

Extracted(x, response) ==
    IF x.exc = NoExc THEN AttemptReturned(x.text, response)
    ELSE AttemptFailed([type |-> x.exc, attempt |-> Len(sent), response |-> Some(response)])

\* The network call returns response: _extract_content returns its text or
\* raises ValueError.
NetworkReply(response) ==
    /\ ipc = "sending"
    /\ Extracted(ExtractContent(adapter, response), response)

\* The network call raises.
NetworkError ==
    /\ ipc = "sending"
    /\ AttemptFailed([type |-> "ConnectionError", attempt |-> Len(sent), response |-> None])

\* ------------------------------------------------------------------------
\* models/base_model.py: LLMConfig.load
\* ------------------------------------------------------------------------

DefaultPath == "/pkg/models.json"

CwdPath == "/cfg/models.json"

ConfigPaths == {DefaultPath, CwdPath}

\* The path arguments: none, the empty string, a path relative to the working
\* directory /cfg, and an absolute path.
PathArgs == {None, Some(""), Some("models.json"), Some(CwdPath)}

ModelKeys == {"m1", "m2"}

P_OpenAI == <<"O","p","e","n","A","I">>
P_Custom == <<"C","u","s","t","o","m">>
P_custom == <<"c","u","s","t","o","m">>
P_CUSTOM == <<"C","U","S","T","O","M">>
P_Gemini == <<"G","e","m","i","n","i">>
P_GEMINI == <<"G","E","M","I","N","I">>
P_openai == <<"o","p","e","n","a","i">>
P_azure == <<"a","z","u","r","e">>
P_azure_openai == <<"a","z","u","r","e","_","o","p","e","n","a","i">>
P_ollama == <<"o","l","l","a","m","a">>
P_gemini == <<"g","e","m","i","n","i">>
P_google == <<"g","o","o","g","l","e">>
P_claude == <<"c","l","a","u","d","e">>
P_anthropic == <<"a","n","t","h","r","o","p","i","c">>

\* Entries of a configuration file.
E_openai == [provider |-> P_OpenAI, temperature |-> Some(0), api_key |-> "k"]
E_custom == [provider |-> P_Custom]
E_type == [type |-> P_ollama, temperature |-> None]
E_gemini == [provider |-> P_Gemini, type |-> P_openai, base_url |-> "u"]
E_bare == [description |-> "d"]

\* Parsed contents of a configuration file.
K_a == [m1 |-> E_openai, m2 |-> E_custom]
K_b == [m1 |-> E_type]
K_c == [m1 |-> E_gemini, m2 |-> E_bare]
K_empty == EmptyDict

\* The contents the files take while load is called.
Contents == {K_a, K_b, K_empty}

FileStates == {None} \cup {Some(c) : c \in Contents}

\* config_path = (Path(path) if path else Path(__file__).with_name('models.json')).resolve()
Resolve(path) ==
    IF path = None \/ path = Some("") THEN DefaultPath
    ELSE IF path[1] = "models.json" THEN CwdPath
    ELSE path[1]

CacheHitNever(cache_key, ic) == FALSE

\* cache_key in cls._instance_cache
CacheHit(cache_key, ic) == cache_key \in DOMAIN ic

\* config_path.is_file()
IsFile(fs, config_path) == fs[config_path] # None

FileCacheAfter(fc, fs, config_path) ==
    IF config_path \in DOMAIN fc THEN fc
    ELSE DictUpdate(fc, [k \in {config_path} |-> fs[config_path][1]])

FileDataFresh(fc, fs, config_path) == fs[config_path][1]

\* data = cls._file_cache[config_path], after the file was parsed if it was
\* not cached
FileData(fc, fs, config_path) == FileCacheAfter(fc, fs, config_path)[config_path]

EntryGet(entry, key, default) == IF key \in DOMAIN entry THEN entry[key] ELSE default

\* cls(name=model, provider=entry.get('provider', entry.get('type', '')), ...):
\* id is the identity of the new object.
NewInstance(model, entry, id) ==
    [id |-> id,
     name |-> model,
     provider |-> EntryGet(entry, "provider", EntryGet(entry, "type", <<>>)),
     description |-> EntryGet(entry, "description", ""),
     base_url |-> EntryGet(entry, "base_url", ""),
     api_key |-> EntryGet(entry, "api_key", ""),
     temperature |-> EntryGet(entry, "temperature", Some(1))]

LoadResult(exc, instance, fc, ic, id) ==
    [exc |-> exc, instance |-> instance, file_cache |-> fc, instance_cache |-> ic,
     nextId |-> id]

LoadStore(cache_key, instance, fc, ic, id) ==
    LoadResult(NoExc, Some(instance), fc,
               DictUpdate(ic, [k \in {cache_key} |-> instance]), id + 1)

\* file_data is the local data
LoadEntry(model, cache_key, file_data, fc, ic, id) ==
    IF model \notin DOMAIN file_data
    THEN LoadResult("ValueError", None, fc, ic, id)
    ELSE LoadStore(cache_key, NewInstance(model, file_data[model], id), fc, ic, id)

LoadMiss(model, config_path, fc, ic, fs, id) ==
    IF ~IsFile(fs, config_path)
    THEN LoadResult("FileNotFoundError", None, fc, ic, id)
    ELSE LoadEntry(model, <<config_path, model>>, FileData(fc, fs, config_path),
                   FileCacheAfter(fc, fs, config_path), ic, id)

\* LLMConfig.load(model, path) with the class state (fc, ic) and the files fs:
\* the exception or the instance, and the class state afterwards.
load(model, path, fc, ic, fs, id) ==
    IF CacheHit(<<Resolve(path), model>>, ic)
    THEN LoadResult(NoExc, Some(ic[<<Resolve(path), model>>]), fc, ic, id)
    ELSE LoadMiss(model, Resolve(path), fc, ic, fs, id)

FirstAfter(cache_key, r) ==
    IF r.exc = NoExc /\ cache_key \notin DOMAIN first
    THEN DictUpdate(first, [k \in {cache_key} |-> r.instance[1]])
    ELSE first

CallRecord(model, path, r) ==
    [model |-> model, path |-> path, config_path |-> Resolve(path),
     fileAtCall |-> files[Resolve(path)],
     cacheAtCall |-> DictGet(file_cache, Resolve(path)),
     icBefore |-> instance_cache,
     exc |-> r.exc, instance |-> r.instance, icAfter |-> r.instance_cache]

LoadStep(model, path, r) ==
    /\ file_cache' = r.file_cache
    /\ instance_cache' = r.instance_cache
    /\ nextId' = r.nextId
    /\ first' = FirstAfter(<<Resolve(path), model>>, r)
    /\ lastCall' = Some(CallRecord(model, path, r))
    /\ UNCHANGED files

\* A call of LLMConfig.load(model, path).
Load(model, path) ==
    LoadStep(model, path, load(model, path, file_cache, instance_cache, files, nextId))

\* The configuration file at config_path is written with new content.
WriteFile(config_path, content) ==
    /\ files[config_path] # Some(content)
    /\ files' = [files EXCEPT ![config_path] = Some(content)]
    /\ UNCHANGED <<file_cache, instance_cache, nextId, first, lastCall>>

\* The configuration file at config_path is removed.
RemoveFile(config_path) ==
    /\ files[config_path] # None
    /\ files' = [files EXCEPT ![config_path] = None]
    /\ UNCHANGED <<file_cache, instance_cache, nextId, first, lastCall>>

\* The class state of a fresh process.
ConfigFresh ==
    /\ file_cache = EmptyDict
    /\ instance_cache = EmptyDict
    /\ nextId = 1
    /\ first = EmptyDict
    /\ lastCall = None

ConfigIdle ==
    /\ files = [p \in ConfigPaths |-> None]
    /\ ConfigFresh

ConfigInit ==
    /\ files \in [ConfigPaths -> FileStates]
    /\ ConfigFresh

\* ------------------------------------------------------------------------
\* models/models.py: AsyncLLM
\* ------------------------------------------------------------------------

MaxRegistrations == 2

BuiltinNames ==
    {P_openai, P_azure, P_azure_openai, P_ollama, P_gemini, P_google, P_claude, P_anthropic}

BuiltinClass(name) ==
    IF name \in {P_openai, P_azure, P_azure_openai} THEN "AsyncOpenAILLM"
    ELSE IF name = P_ollama THEN "AsyncOllamaLLM"
    ELSE IF name \in {P_gemini, P_google} THEN "AsyncGeminiLLM"
    ELSE "AsyncAnthropicLLM"

\* AsyncLLM._provider_registry as the class body defines it
BuiltinRegistry == [name \in BuiltinNames |-> BuiltinClass(name)]

RegNames == {P_custom, P_CUSTOM, P_GEMINI}

RegClasses == {"CustomLLM", "AsyncOllamaLLM"}

RegistryKeyRaw(provider) == provider

\* provider.lower()
RegistryKey(provider) == Lower(provider)

register_provider(reg, provider, llm_class) ==
    DictUpdate(reg, [k \in {RegistryKey(provider)} |-> llm_class])

\* cls._provider_registry.get(provider), AsyncOpenAILLM if it is None
LookupClass(reg, provider) ==
    IF provider \in DOMAIN reg THEN reg[provider] ELSE "AsyncOpenAILLM"

\* llm_class(config, **kwargs)
NewClient(reg, config) ==
    [class |-> LookupClass(reg, Lower(config.provider)), config |-> config]

\* A call of AsyncLLM.register_provider(provider, llm_class).
RegisterProvider(provider, llm_class) ==
    /\ Len(regLog) < MaxRegistrations
    /\ registry' = register_provider(registry, provider, llm_class)
    /\ regLog' = Append(regLog, [provider |-> provider, llm_class |-> llm_class])
    /\ UNCHANGED <<created, createExc, regsAtCreate>>

CreateStep(r) ==
    /\ created' = IF r.exc = NoExc THEN Some(NewClient(registry, r.instance[1])) ELSE None
    /\ createExc' = r.exc
    /\ regsAtCreate' = regLog
    /\ UNCHANGED <<registry, regLog>>

\* A call of AsyncLLM(model, config_path=path).
Create(model, path) ==
    /\ LoadStep(model, path, load(model, path, file_cache, instance_cache, files, nextId))
    /\ CreateStep(load(model, path, file_cache, instance_cache, files, nextId))

FactoryIdle ==
    /\ registry = BuiltinRegistry
    /\ regLog = <<>>
    /\ created = None
    /\ createExc = NoExc
    /\ regsAtCreate = <<>>

\* The config_path arguments of AsyncLLM(...): the default and an override.
FactoryPaths == {None, Some("models.json")}

\* The configuration files the factory reads.
FactoryFiles ==
    {[p \in ConfigPaths |-> IF p = DefaultPath THEN Some(K_a) ELSE Some(K_c)],
     [p \in ConfigPaths |-> IF p = DefaultPath THEN Some(K_b) ELSE None]}

\* ------------------------------------------------------------------------
\* tools.py: one call of download_file, attempt by attempt
\* ------------------------------------------------------------------------

\* The destination files at the call: absent, empty, holding the first byte,
\* holding the first two bytes, holding four bytes.
DestChoices == {None, Some(<<>>), Some(<<1>>), Some(<<1, 2>>), Some(B_train)}

ResourceChoices ==
    {[body |-> b, has_length |-> h] : b \in {B_train, B_validate, B_new}, h \in BOOLEAN}

\* The exception an attempt raises.
AttemptException(outcome) ==
    IF outcome = "head_error" THEN "ConnectionError"
    ELSE IF outcome = "get_error" THEN "HTTPError"
    ELSE "ChunkedEncodingError"

DownloadIdle ==
    /\ dpc = "idle"
    /\ resource = [body |-> B_train, has_length |-> TRUE]
    /\ dest = None
    /\ dest0 = None
    /\ attempt = 0
    /\ attempts = <<>>
    /\ dexc = None

DownloadInit ==
    /\ dpc = "idle"
    /\ resource \in ResourceChoices
    /\ dest \in DestChoices
    /\ dest0 = dest
    /\ attempt = 0
    /\ attempts = <<>>
    /\ dexc = None

\* download_file(url, destination_path) is called.
DownloadCall ==
    /\ dpc = "idle"
    /\ dpc' = "trying"
    /\ UNCHANGED <<resource, dest, dest0, attempt, attempts, dexc>>

\* The attempt ended as a: return, raise, or the next pass of the loop.
AttemptEnds(a, outcome) ==
    /\ dest' = a.file
    /\ attempts' = Append(attempts, [before |-> dest, after |-> a.file, raised |-> a.raised,
                                     log |-> a.log, outcome |-> outcome,
                                     exc |-> IF a.raised THEN Some(AttemptException(outcome))
                                             ELSE None])
    /\ IF ~a.raised
       THEN dpc' = "returned" /\ dexc' = None /\ attempt' = attempt
       ELSE IF LastAttempt(attempt)
       THEN /\ dpc' = "raised"
            /\ dexc' = Some([exc |-> AttemptException(outcome), attempt |-> attempt])
            /\ attempt' = attempt
       ELSE dpc' = "trying" /\ dexc' = None /\ attempt' = attempt + 1
    /\ UNCHANGED <<resource, dest0>>

\* One pass of the for loop, the network doing outcome.
Attempt(outcome) ==
    /\ dpc = "trying"
    /\ AttemptEnds(DownloadAttempt(dest, resource, outcome), outcome)

\* ------------------------------------------------------------------------
\* measures.py: one evaluation of f1_score and exact_match_score
\* ------------------------------------------------------------------------

S_a == <<"a">>

S_blue_blue == <<"b","l","u","e"," ","b","l","u","e">>

S_blue_light_blue == <<"b","l","u","e"," ","l","i","g","h","t"," ","b","l","u","e">>

S_Blue_light == <<"B","l","u","e",","," "," ","L","i","g","h","t","!">>

S_an_apple == <<"a","n"," ","a","p","p","l","e">>

S_apple_the == <<"a","p","p","l","e","\t","t","h","e">>

\* The strings the measures are evaluated on.
MeasureStrings ==
    {<<>>, S_a, S_TheCat, S_cat, S_light_blue, S_blue, S_b_c_d, S_a_b_c, S_blue_blue,
     S_blue_light_blue, S_Blue_light, S_an_apple, S_apple_the}

MeasureIdle ==
    /\ mpc = "idle"
    /\ m_prediction = <<>>
    /\ m_ground_truth = <<>>
    /\ m_f1 = None
    /\ m_em = None

MeasureInit ==
    /\ mpc = "idle"
    /\ m_prediction \in MeasureStrings
    /\ m_ground_truth \in MeasureStrings
    /\ m_f1 = None
    /\ m_em = None

\* f1_score(prediction, ground_truth) and exact_match_score(prediction,
\* ground_truth) are evaluated.
Measure ==
    /\ mpc = "idle"
    /\ mpc' = "done"
    /\ m_f1' = Some(f1_score(m_prediction, m_ground_truth))
    /\ m_em' = Some(exact_match_score(m_prediction, m_ground_truth))
    /\ UNCHANGED <<m_prediction, m_ground_truth>>

\* ------------------------------------------------------------------------
\* benchmark.py: DatasetType.from_value
\* ------------------------------------------------------------------------

\* A plain str, which is no member of DatasetType.
RawString(v) == [str |-> v]

\* The members of DatasetType in definition order, and their values as
\* characters.
MemberValues == <<"train", "validate", "test", "all">>

ValueChars ==
    << <<"t","r","a","i","n">>, <<"v","a","l","i","d","a","t","e">>, <<"t","e","s","t">>,
       <<"a","l","l">> >>

\* "default: 'DatasetType' = VALIDATE": in the class body VALIDATE is still
\* the str 'validate'.
FromValueDefault == RawString("validate")

from_value(value, default) ==
    IF \E k \in 1..Len(MemberValues) : ValueChars[k] = Lower(value)
    THEN Member(MemberValues[CHOOSE k \in 1..Len(MemberValues) : ValueChars[k] = Lower(value)])
    ELSE default

\* The strings from_value is called with.
SelectorStrings ==
    {<<"T","R","A","I","N">>, <<"V","a","l","i","d","a","t","e">>, <<"t","e","s","t">>,
     <<"A","l","l">>, <<"d","e","v">>, <<>>}

SelectorIdle ==
    /\ fv_value = <<>>
    /\ fv_result = None

SelectorInit ==
    /\ fv_value \in SelectorStrings
    /\ fv_result = None

\* DatasetType.from_value(value), default not supplied.
FromValue ==
    /\ fv_result = None
    /\ fv_result' = Some(from_value(fv_value, FromValueDefault))
    /\ UNCHANGED fv_value

\* HotpotQA(dataset_type=<what from_value returned>)
ConstructSelected ==
    /\ fv_result # None
    /\ Construct(fv_result[1])

\* ------------------------------------------------------------------------
\* agents/agent.py: Agent.llm, Agent.reset
\* ------------------------------------------------------------------------

\* Accesses and resets of one agent.
MaxAgentOps == 5

\* The factory is called at every access.
NeedsClientAlways(cached) == TRUE

\* "if self._llm is None"
NeedsClient(cached) == cached = None

\* The client object AsyncLLM(...) made, with its identity.
ClientObject(r, id) ==
    [class |-> NewClient(registry, r.instance[1]).class, config |-> r.instance[1], id |-> id]

\* "self._llm = AsyncLLM(self.config.model)": nothing is assigned when the
\* factory raises.
AssignClient(r) ==
    /\ llm_cache' = IF r.exc = NoExc THEN Some(ClientObject(r, nextClient)) ELSE None
    /\ nextClient' = IF r.exc = NoExc THEN nextClient + 1 ELSE nextClient
    /\ agentLog' = Append(agentLog,
                          [op |-> "llm", invoked |-> TRUE, exc |-> r.exc,
                           client |-> IF r.exc = NoExc THEN Some(ClientObject(r, nextClient))
                                      ELSE None])
    /\ UNCHANGED agent_model

ReturnCached ==
    /\ agentLog' = Append(agentLog,
                          [op |-> "llm", invoked |-> FALSE, exc |-> NoExc, client |-> llm_cache])
    /\ UNCHANGED <<agent_model, llm_cache, nextClient>>

\* An access of the property llm.
AccessLlm ==
    /\ Len(agentLog) < MaxAgentOps
    /\ IF NeedsClient(llm_cache)
       THEN /\ Create(agent_model, None)
            /\ AssignClient(load(agent_model, None, file_cache, instance_cache, files, nextId))
       ELSE /\ ReturnCached
            /\ UNCHANGED <<configVars, factoryVars>>

\* A call of reset().
Reset ==
    /\ Len(agentLog) < MaxAgentOps
    /\ llm_cache' = None
    /\ agentLog' = Append(agentLog,
                          [op |-> "reset", invoked |-> FALSE, exc |-> NoExc, client |-> None])
    /\ UNCHANGED <<agent_model, nextClient>>

AgentIdle ==
    /\ agent_model = "m1"
    /\ llm_cache = None
    /\ nextClient = 1
    /\ agentLog = <<>>

AgentInit ==
    /\ agent_model \in ModelKeys
    /\ llm_cache = None
    /\ nextClient = 1
    /\ agentLog = <<>>

\* The default configuration file: with both models, or with m1 only.
AgentFiles ==
    {[p \in ConfigPaths |-> IF p = DefaultPath THEN Some(K_a) ELSE None],
     [p \in ConfigPaths |-> IF p = DefaultPath THEN Some(K_b) ELSE None]}

\* ------------------------------------------------------------------------
\* Specifications
\* ------------------------------------------------------------------------

vars ==
    <<benchVars, runVars, invokeVars, configVars, factoryVars,
      downloadVars, measureVars, selectorVars, agentVars>>

notBench ==
    <<runVars, invokeVars, configVars, factoryVars, downloadVars,
      measureVars, selectorVars, agentVars>>

notRun ==
    <<benchVars, invokeVars, configVars, factoryVars, downloadVars,
      measureVars, selectorVars, agentVars>>

notInvoke ==
    <<benchVars, runVars, configVars, factoryVars, downloadVars,
      measureVars, selectorVars, agentVars>>

notConfig ==
    <<benchVars, runVars, invokeVars, factoryVars, downloadVars,
      measureVars, selectorVars, agentVars>>

notFactory ==
    <<benchVars, runVars, invokeVars, configVars, downloadVars,
      measureVars, selectorVars, agentVars>>

notCreate ==
    <<benchVars, runVars, invokeVars, downloadVars, measureVars,
      selectorVars, agentVars>>

notDownload ==
    <<benchVars, runVars, invokeVars, configVars, factoryVars,
      measureVars, selectorVars, agentVars>>

notMeasure ==
    <<benchVars, runVars, invokeVars, configVars, factoryVars,
      downloadVars, selectorVars, agentVars>>

notSelector ==
    <<benchVars, runVars, invokeVars, configVars, factoryVars,
      downloadVars, measureVars, agentVars>>

notAgent ==
    <<benchVars, runVars, invokeVars, configVars, factoryVars,
      downloadVars, measureVars, selectorVars>>

notAccess ==
    <<benchVars, runVars, invokeVars, downloadVars, measureVars,
      selectorVars>>

\* A benchmark is constructed and run() is called on it; the network is sound.
InitRun ==
    /\ BenchInit /\ faults = <<>> /\ RunIdle /\ InvokeIdle /\ ConfigIdle /\ FactoryIdle
    /\ DownloadIdle /\ MeasureIdle /\ SelectorIdle /\ AgentIdle

NextRun ==
    \/ \E dtype \in DatasetTypes : Construct(dtype) /\ UNCHANGED notBench
    \/ \E d \in RunDatasets, n \in SampleLimits : RunCall(d, n) /\ UNCHANGED notRun
    \/ CallbackStart /\ UNCHANGED notRun
    \/ \E p \in Predictions : CallbackReturn(p) /\ UNCHANGED notRun
    \/ \E m \in Messages : CallbackRaise(m) /\ UNCHANGED notRun
    \/ RunReturn /\ UNCHANGED notRun

SpecRun == InitRun /\ [][NextRun]_vars

\* A benchmark is constructed and load_data() is called again, while files and
\* served resources change and the network fails.
InitLoad ==
    /\ BenchInit /\ faults \in FaultChoices /\ RunIdle /\ InvokeIdle /\ ConfigIdle
    /\ FactoryIdle /\ DownloadIdle /\ MeasureIdle /\ SelectorIdle /\ AgentIdle

NextLoad ==
    \/ \E dtype \in DatasetTypes : Construct(dtype) /\ UNCHANGED notBench
    \/ \E force \in BOOLEAN : LoadData(force) /\ UNCHANGED notBench
    \/ \E u \in Urls : ServerUpdate(u) /\ UNCHANGED notBench
    \/ \E f \in FileNames : DeleteFile(f) /\ UNCHANGED notBench

SpecLoad == InitLoad /\ [][NextLoad]_vars

\* No benchmark is constructed: one fixed environment.
BenchIdle ==
    /\ BenchInit
    /\ benchmarks = (CHOOSE b \in ManifestChoices : TRUE)
    /\ disk = (CHOOSE dk \in DiskChoices : TRUE)
    /\ server = (CHOOSE sv \in ServerChoices : TRUE)
    /\ faults = <<>>

\* One call of a provider client, with the network failing at will.
InitInvoke ==
    /\ BenchIdle /\ RunIdle /\ InvokeInit /\ ConfigIdle /\ FactoryIdle /\ DownloadIdle
    /\ MeasureIdle /\ SelectorIdle /\ AgentIdle

NextInvoke ==
    \/ \E ovr \in OverrideChoices(adapter) : InvokeCall(ovr) /\ UNCHANGED notInvoke
    \/ SendRequest /\ UNCHANGED notInvoke
    \/ \E r \in Responses : NetworkReply(r) /\ UNCHANGED notInvoke
    \/ NetworkError /\ UNCHANGED notInvoke

SpecInvoke == InitInvoke /\ [][NextInvoke]_vars

\* LLMConfig.load is called while the configuration files change.
InitConfig ==
    /\ BenchIdle /\ RunIdle /\ InvokeIdle /\ ConfigInit /\ FactoryIdle /\ DownloadIdle
    /\ MeasureIdle /\ SelectorIdle /\ AgentIdle

NextConfig ==
    \/ \E model \in ModelKeys, path \in PathArgs : Load(model, path) /\ UNCHANGED notConfig
    \/ \E p \in ConfigPaths, c \in Contents : WriteFile(p, c) /\ UNCHANGED notConfig
    \/ \E p \in ConfigPaths : RemoveFile(p) /\ UNCHANGED notConfig

SpecConfig == InitConfig /\ [][NextConfig]_vars

\* Providers are registered and clients are created from fixed files.
InitFactory ==
    /\ BenchIdle /\ RunIdle /\ InvokeIdle /\ files \in FactoryFiles /\ ConfigFresh
    /\ FactoryIdle /\ DownloadIdle /\ MeasureIdle /\ SelectorIdle /\ AgentIdle

NextFactory ==
    \/ \E name \in RegNames, cls \in RegClasses :
           RegisterProvider(name, cls) /\ UNCHANGED notFactory
    \/ \E model \in ModelKeys, path \in FactoryPaths :
           Create(model, path) /\ UNCHANGED notCreate

SpecFactory == InitFactory /\ [][NextFactory]_vars

\* download_file is called once, on any destination and resource, with the
\* network failing at will.
InitDownload ==
    /\ BenchIdle /\ RunIdle /\ InvokeIdle /\ ConfigIdle /\ FactoryIdle /\ DownloadInit
    /\ MeasureIdle /\ SelectorIdle /\ AgentIdle

NextDownload ==
    \/ DownloadCall /\ UNCHANGED notDownload
    \/ \E outcome \in NetOutcomes : Attempt(outcome) /\ UNCHANGED notDownload

SpecDownload == InitDownload /\ [][NextDownload]_vars

\* The measures are evaluated once, on any two of the strings.
InitMeasure ==
    /\ BenchIdle /\ RunIdle /\ InvokeIdle /\ ConfigIdle /\ FactoryIdle /\ DownloadIdle
    /\ MeasureInit /\ SelectorIdle /\ AgentIdle

NextMeasure == Measure /\ UNCHANGED notMeasure

SpecMeasure == InitMeasure /\ [][NextMeasure]_vars

\* A selector is made with from_value and a benchmark is constructed with it.
InitSelector ==
    /\ BenchInit /\ faults = <<>> /\ RunIdle /\ InvokeIdle /\ ConfigIdle /\ FactoryIdle
    /\ DownloadIdle /\ MeasureIdle /\ SelectorInit /\ AgentIdle

NextSelector ==
    \/ FromValue /\ UNCHANGED notSelector
    \/ ConstructSelected /\ UNCHANGED notBench

SpecSelector == InitSelector /\ [][NextSelector]_vars

\* The property llm of one agent is read and the agent is reset, in any order.
InitAgent ==
    /\ BenchIdle /\ RunIdle /\ InvokeIdle /\ files \in AgentFiles /\ ConfigFresh
    /\ FactoryIdle /\ DownloadIdle /\ MeasureIdle /\ SelectorIdle /\ AgentInit

NextAgent ==
    \/ AccessLlm /\ UNCHANGED notAccess
    \/ Reset /\ UNCHANGED notAgent

SpecAgent == InitAgent /\ [][NextAgent]_vars

\* ------------------------------------------------------------------------
\* Properties of run() (SpecRun)
\* ------------------------------------------------------------------------

Ems(res) == [k \in 1..Len(res) |-> res[k].em]

F1s(res) == [k \in 1..Len(res) |-> res[k].f1]

\* The mean of the per-sample scores, 0 when there is none.
MeanOf(scores) ==
    IF Len(scores) = 0 THEN RZero ELSE RDiv(SeqSum(scores), Rat(Len(scores), 1))

MetricsAreMeans(r) ==
    /\ r.metrics.num_samples = Len(r.results)
    /\ r.metrics.num_passed = Cardinality({k \in 1..Len(r.results) : r.results[k].result = PASS})
    /\ r.metrics.exact_match = MeanOf(Ems(r.results))
    /\ r.metrics.f1 = MeanOf(F1s(r.results))

\* C1: when the callback raised for exactly one of the N records, run() returns
\* N results; the failing record's result is FAIL with zero scores and a
\* non-empty error field, no other result has an error field, and the
\* aggregates are the sums of the per-sample scores divided by N.
C1_OneFailingSample ==
    (pc = "done" /\ run_num_samples = None /\ Cardinality(raisedAt) = 1) =>
        LET r == ret[1]
        IN /\ Len(r.results) = Len(parts[run_dataset][1])
           /\ \A k \in 1..Len(r.results) :
                IF (k - 1) \in raisedAt
                THEN /\ r.results[k].result = FAIL
                     /\ r.results[k].em = RZero
                     /\ r.results[k].f1 = RZero
                     /\ "error" \in DOMAIN r.results[k]
                     /\ r.results[k].error # <<>>
                ELSE "error" \notin DOMAIN r.results[k]
           /\ MetricsAreMeans(r)

\* C2: callbacks run one at a time in partition order: at most one callback is
\* in flight, the callback of a record is started only when the results of all
\* earlier records are appended, and results[k] belongs to record k.
C2_Sequential ==
    /\ inflight \in {0, 1}
    /\ (inflight = 1) = (pc = "await")
    /\ Len(started) = Len(results) + inflight
    /\ \A k \in 1..Len(started) : started[k] = k - 1
    /\ Len(results) <= Len(data)
    /\ \A k \in 1..Len(results) :
         /\ results[k].id = ItemId(data[k], k - 1)
         /\ results[k].question = data[k].question
         /\ results[k].ground_truth = data[k].answer

\* Two results are appended (one of them of a raising callback) and the third
\* callback is in flight.
C2_Witness ==
    /\ pc = "await"
    /\ Len(results) = 2
    /\ raisedAt # {}
    /\ "_id" \notin DOMAIN data[2]

\* C3: run() raises ValueError, with no callback started and no result, exactly
\* when the name is not train/validate/test or the named partition is None;
\* otherwise it runs on (a prefix of) the named partition.
C3_SelectOrRaise ==
    (pc # "idle") =>
        IF run_dataset \notin PartNames \/ parts[run_dataset] = None
        THEN /\ pc = "raised"
             /\ started = <<>>
             /\ results = <<>>
             /\ ret = None
        ELSE /\ pc # "raised"
             /\ Len(data) <= Len(parts[run_dataset][1])
             /\ \A k \in 1..Len(data) : data[k] = parts[run_dataset][1][k]

\* run() raised on the unloaded test partition of a benchmark whose validate
\* partition is loaded.
C3_Witness ==
    /\ pc = "raised"
    /\ run_dataset = "test"
    /\ parts["test"] = None
    /\ parts["validate"] # None

\* The number of records the claim C4 has run() process.
ExpectedCount(n, num_samples) ==
    IF num_samples = None THEN n
    ELSE IF num_samples[1] > n THEN n
    ELSE num_samples[1]

\* C4: for every partition and every num_samples, run() processes exactly the
\* first num_samples records (all when the limit is absent or larger than the
\* partition), and the aggregates are the count, the number of PASS results
\* and the means of the per-sample scores.
C4_LimitAndMeans ==
    (pc = "done") =>
        LET r == ret[1]
            partition == parts[run_dataset][1]
            expected == SubSeq(partition, 1, ExpectedCount(Len(partition), run_num_samples))
        IN /\ Len(r.results) = Len(expected)
           /\ \A k \in 1..Len(r.results) : r.results[k].question = expected[k].question
           /\ MetricsAreMeans(r)

\* ------------------------------------------------------------------------
\* Properties of load_data() (SpecLoad)
\* ------------------------------------------------------------------------

\* C10: a load_data(force_reload=False) call after construction performs no new
\* load of a partition that is already loaded (no GET, no parse of the file)
\* and leaves the three partitions unchanged.
C10_LoadedAtMostOnce ==
    (lastLoad.called /\ ~lastLoad.force) =>
        /\ parts = lastLoad.before
        /\ \A p \in PartNames :
             lastLoad.before[p] # None =>
                 /\ reads[p] = lastLoad.readsBefore[p]
                 /\ gets[p] = lastLoad.getsBefore[p]

\* ------------------------------------------------------------------------
\* Properties of the provider clients (SpecInvoke)
\* ------------------------------------------------------------------------

\* C5: one invoke makes at most 3 attempts with one network call each; it
\* returns the text of the first attempt that succeeds and calls no more; a
\* failed attempt (network exception, or no extractable text) is retried while
\* attempts remain; after 3 failures the exception raised is the third
\* attempt's own.
C5_BoundedRetry ==
    LET n == Len(sent)
        m == Len(outcomes)
    IN /\ n <= 3
       /\ n = m + (IF ipc = "sending" THEN 1 ELSE 0)
       /\ \A k \in 1..m : outcomes[k].attempt = k
       /\ \A k \in 1..(m - 1) : outcomes[k].type # "ok"
       /\ (ipc = "ready" /\ m > 0) => (m < 3 /\ outcomes[m].type # "ok")
       /\ (ipc = "done") =>
             /\ outcomes[m].type = "ok"
             /\ iret # None
             /\ iret \in {outcomes[m].response[1].text, outcomes[m].response[1].fallback}
             /\ iexc = None
       /\ (ipc = "raised") =>
             /\ m = 3
             /\ outcomes[3].type \in {"ConnectionError", "ValueError"}
             /\ iexc = Some([type |-> outcomes[3].type, attempt |-> 3])
             /\ iret = None
       /\ (ipc \in {"done", "raised"}) = (m > 0 /\ (outcomes[m].type = "ok" \/ m = 3))

\* All three attempts failed, the first on the network and the last for want
\* of a text, and the caller got the third attempt's exception.
C5_Witness ==
    /\ ipc = "raised"
    /\ outcomes[1].type = "ConnectionError"
    /\ outcomes[3].type = "ValueError"
    /\ iexc = Some([type |-> "ValueError", attempt |-> 3])

\* The request req carries the value the override dict ovr gives for each of
\* its keys (for 'config' and 'options': for each key of the nested dict).
CarriesOverride(req, ovr) ==
    \A key \in DOMAIN ovr :
        /\ key \in DOMAIN req
        /\ IF key = "config"
           THEN \A ck \in DOMAIN ovr.config :
                    ck \in DOMAIN req.config /\ req.config[ck] = ovr.config[ck]
           ELSE IF key = "options"
           THEN /\ req.options # None
                /\ \A ok \in DOMAIN ovr.options :
                     ok \in DOMAIN req.options[1] /\ req.options[1][ok] = ovr.options[ok]
           ELSE IF key = "messages" /\ adapter = "AsyncOllamaLLM"
           THEN req.messages = ovr.messages[1]
           ELSE req[key] = ovr[key]

\* C6: for every adapter and every attempt of an invoke, the request sent
\* carries the caller's override value for each key the override supplies, and
\* all attempts of the invoke send the same request.
C6_OverrideWins ==
    \A k \in 1..Len(sent) :
        /\ CarriesOverride(sent[k], override0)
        /\ sent[k] = sent[1]

\* ------------------------------------------------------------------------
\* Properties of LLMConfig.load (SpecConfig)
\* ------------------------------------------------------------------------

\* C7: once load(model, path) has succeeded, every later load for the same
\* (resolved path, model) returns the identical instance the first call
\* created, whatever happened to the file or to other models since; the
\* instance cache holds for each key the one instance first returned for it,
\* and no object is cached under two keys.
C7_IdenticalInstance ==
    /\ DOMAIN instance_cache = DOMAIN first
    /\ \A key \in DOMAIN instance_cache : instance_cache[key] = first[key]
    /\ \A k1, k2 \in DOMAIN instance_cache :
          instance_cache[k1].id = instance_cache[k2].id => k1 = k2
    /\ lastCall # None =>
          LET c == lastCall[1]
              key == <<c.config_path, c.model>>
          IN /\ key \in DOMAIN c.icBefore => c.exc = NoExc
             /\ c.exc = NoExc => c.instance = Some(first[key])

\* A load returned the instance of an earlier call although the file no longer
\* holds what that instance was built from, and another instance was created
\* in between.
C7_Witness ==
    /\ lastCall # None
    /\ <<lastCall[1].config_path, lastCall[1].model>> \in DOMAIN lastCall[1].icBefore
    /\ lastCall[1].exc = NoExc
    /\ lastCall[1].instance[1].id = 1
    /\ nextId > 2
    /\ lastCall[1].fileAtCall # None
    /\ lastCall[1].model \in DOMAIN lastCall[1].fileAtCall[1]
    /\ lastCall[1].fileAtCall[1][lastCall[1].model] # E_openai
    /\ lastCall[1].instance[1].provider = P_OpenAI

\* The content load takes the entry from when the key is not in the instance
\* cache: what the file cache held for the path, else the file.
SourceAtCall(c) == IF c.cacheAtCall # None THEN c.cacheAtCall[1] ELSE c.fileAtCall[1]

\* C8 (as amended): load returns the cached instance when (resolved path,
\* model) is in the instance cache, whatever the file is now; otherwise it
\* raises FileNotFoundError when the file is missing at the call, raises
\* ValueError when the model key is absent from the content first parsed for
\* the path (the cached content if any, else the file as it is), and else
\* returns a new LLMConfig named model; a failed load leaves the instance
\* cache as it was.
C8_LoadOutcome ==
    lastCall # None =>
        LET c == lastCall[1]
            key == <<c.config_path, c.model>>
        IN /\ IF key \in DOMAIN c.icBefore
              THEN c.exc = NoExc /\ c.instance = Some(c.icBefore[key])
              ELSE IF c.fileAtCall = None
              THEN c.exc = "FileNotFoundError"
              ELSE IF c.model \notin DOMAIN SourceAtCall(c)
              THEN c.exc = "ValueError"
              ELSE /\ c.exc = NoExc
                   /\ c.instance # None
                   /\ c.instance[1].name = c.model
                   /\ key \in DOMAIN c.icAfter
                   /\ c.icAfter[key] = c.instance[1]
           /\ (c.exc # NoExc) => (c.instance = None /\ c.icAfter = c.icBefore)
           /\ instance_cache = c.icAfter

\* A load that missed the instance cache returned an instance built from the
\* cached content although the file at the call no longer had the key.
C8_Witness ==
    /\ lastCall # None
    /\ <<lastCall[1].config_path, lastCall[1].model>> \notin DOMAIN lastCall[1].icBefore
    /\ lastCall[1].cacheAtCall # None
    /\ lastCall[1].fileAtCall # None
    /\ lastCall[1].model \notin DOMAIN lastCall[1].fileAtCall[1]
    /\ lastCall[1].exc = NoExc

\* C8 (as stated): load fails with the file error whenever the file is missing
\* at the call, fails with the not-found error whenever the key is absent from
\* the file, returns an instance only when the file exists and contains the
\* key; a failed load adds no entry to the instance cache.
C8_FailsWheneverMissing ==
    lastCall # None =>
        LET c == lastCall[1]
        IN /\ (c.fileAtCall = None) => (c.exc = "FileNotFoundError")
           /\ (c.fileAtCall # None /\ c.model \notin DOMAIN c.fileAtCall[1])
                 => (c.exc = "ValueError")
           /\ (c.exc = NoExc)
                 => (c.fileAtCall # None /\ c.model \in DOMAIN c.fileAtCall[1])
           /\ (c.exc # NoExc) => (c.icAfter = c.icBefore)

\* ------------------------------------------------------------------------
\* Properties of AsyncLLM (SpecFactory)
\* ------------------------------------------------------------------------

\* The class of the last register_provider call whose lower-cased name is p.
LatestRegistration(log, p) ==
    LET ks == {k \in 1..Len(log) : Lower(log[k].provider) = p}
    IN IF ks = {} THEN None
       ELSE Some(log[CHOOSE k \in ks : \A j \in ks : j <= k].llm_class)

ExpectedClass(log, p) ==
    IF LatestRegistration(log, p) # None THEN LatestRegistration(log, p)[1]
    ELSE IF p \in BuiltinNames THEN BuiltinClass(p)
    ELSE "AsyncOpenAILLM"

\* C9 (as amended): the client AsyncLLM(model) returns is built by the class
\* most recently registered under the lower-cased provider of the model's
\* configuration (by register_provider, else by the built-in registry), names
\* compared case-insensitively on both sides, and it is an OpenAI-compatible
\* client whenever no class is registered under that name.
C9_LatestRegisteredClass ==
    created # None =>
        /\ lastCall # None
        /\ lastCall[1].instance = Some(created[1].config)
        /\ created[1].class = ExpectedClass(regsAtCreate, Lower(created[1].config.provider))
        /\ (/\ LatestRegistration(regsAtCreate, Lower(created[1].config.provider)) = None
            /\ Lower(created[1].config.provider) \notin BuiltinNames)
              => created[1].class = "AsyncOpenAILLM"

\* Two classes were registered under differently cased names of the provider,
\* the configuration spells it in a third way, and the client is of the class
\* registered last.
C9_Witness ==
    /\ created # None
    /\ Len(regsAtCreate) = 2
    /\ regsAtCreate[1].provider # regsAtCreate[2].provider
    /\ regsAtCreate[1].llm_class # regsAtCreate[2].llm_class
    /\ Lower(regsAtCreate[1].provider) = Lower(created[1].config.provider)
    /\ Lower(regsAtCreate[2].provider) = Lower(created[1].config.provider)
    /\ created[1].config.provider \notin {regsAtCreate[1].provider, regsAtCreate[2].provider}
    /\ created[1].class = regsAtCreate[2].llm_class

\* C9 (as stated): the client is built by the class most recently registered
\* under the lower-cased provider, and it is an OpenAI-compatible client
\* exactly when no class is registered under that name.
C9_FallbackExactly ==
    created # None =>
        /\ created[1].class = ExpectedClass(regsAtCreate, Lower(created[1].config.provider))
        /\ (created[1].class = "AsyncOpenAILLM")
              <=> (/\ LatestRegistration(regsAtCreate, Lower(created[1].config.provider)) = None
                   /\ Lower(created[1].config.provider) \notin BuiltinNames)

\* ------------------------------------------------------------------------
\* Properties of load_dataset and download_file (SpecLoad)
\* ------------------------------------------------------------------------

\* The partitions the last load_data call passed to load_dataset with an entry.
LoadedParts ==
    IF "hotpotqa" \in DOMAIN benchmarks
    THEN {p \in DOMAIN benchmarks["hotpotqa"] : dataset_type \in {Member("all"), Member(p)}}
    ELSE {}

\* C11: load_dataset with force_reload = True and an entry downloads again: it
\* sends a GET to the entry's url and the file it parses holds what the url
\* serves, even when a complete local copy existed; with force_reload = False it
\* downloads only when the local file is absent.
C11_ForceDownloadsAgain ==
    (lastLoad.called /\ lastLoad.exc = NoExc) =>
        \A p \in LoadedParts :
            LET e == benchmarks["hotpotqa"][p]
            IN IF lastLoad.force
               THEN /\ gets[p] > lastLoad.getsBefore[p]
                    /\ lastLoad.diskAfter[e.name] = Some(lastLoad.served[e.url])
               ELSE (gets[p] > lastLoad.getsBefore[p]) => (lastLoad.diskBefore[e.name] = None)

\* ------------------------------------------------------------------------
\* Properties of download_file (SpecDownload)
\* ------------------------------------------------------------------------

SizeOf(file) == IF file = None THEN 0 ELSE Len(file[1])

\* The Content-Length the HEAD request reports (0 when the header is missing).
ReportedSize == IF resource.has_length THEN Len(resource.body) ELSE 0

GetsOf(log) == {j \in 1..Len(log) : log[j].method = "GET"}

\* The bytes of before are the first bytes of after.
KeepsBytes(before, after) ==
    /\ after # None
    /\ Len(after[1]) >= SizeOf(before)
    /\ SubSeq(after[1], 1, SizeOf(before)) = before[1]

OutcomesOf(as) == [n \in 1..Len(as) |-> as[n].outcome]

\* C13: download_file makes at most 3 attempts; it returns after the first
\* attempt that raises nothing and sends no request after it; after a failed
\* attempt that is not the third it makes another, which starts from the bytes
\* the failed one left; when the third attempt fails, that attempt's exception
\* is raised to the caller.
C13_ThreeAttempts ==
    LET n == Len(attempts)
    IN /\ n <= 3
       /\ \A k \in 1..(n - 1) : attempts[k].raised
       /\ \A k \in 1..n : attempts[k].before = (IF k = 1 THEN dest0 ELSE attempts[k - 1].after)
       /\ (n > 0) => (dest = attempts[n].after)
       /\ (dpc = "trying") => (n = attempt /\ n < 3 /\ \A k \in 1..n : attempts[k].raised)
       /\ (dpc = "returned") => (n >= 1 /\ ~attempts[n].raised /\ dexc = None)
       /\ (dpc = "raised") =>
             /\ n = 3
             /\ attempts[3].raised
             /\ dexc = Some([exc |-> attempts[3].exc[1], attempt |-> 2])
       /\ (dpc \in {"returned", "raised"}) =>
             LET d == download_file(dest0, resource, OutcomesOf(attempts))
             IN /\ d.file = dest
                /\ d.raised = (dpc = "raised")
                /\ d.attempts = n

\* Two attempts failed in different ways, the third one completed the file
\* from the byte the second one left.
C13_Witness ==
    /\ dpc = "returned"
    /\ Len(attempts) = 3
    /\ attempts[1].outcome = "head_error"
    /\ attempts[2].outcome = "cut"
    /\ attempts[3].before # dest0
    /\ attempts[3].log[2].range = Some(SizeOf(attempts[2].after))
    /\ dest = Some(resource.body)

\* C19: when download_file returns without raising, the destination exists and
\* holds at least as many bytes as the resource, whatever the destination was
\* and whatever size the HEAD request reported (a missing Content-Length
\* included); so load_json of the destination does not fail for a missing file.
C19_FileThereAfterReturn ==
    (dpc = "returned") =>
        /\ dest # None
        /\ SizeOf(dest) >= Len(resource.body)
        /\ load_json([f \in {F_train} |-> dest], F_train).exc # "FileNotFoundError"

\* ------------------------------------------------------------------------
\* Properties of load_dataset with no manifest entry (SpecLoad)
\* ------------------------------------------------------------------------

\* The partitions the manifest of the benchmark has no entry for.
AbsentParts ==
    IF "hotpotqa" \in DOMAIN benchmarks
    THEN PartNames \ DOMAIN benchmarks["hotpotqa"]
    ELSE {}

\* C14: load_dataset with no entry returns None, sends no request and reads no
\* file, whatever force_reload is; so a partition without a manifest entry is
\* None after every load_data, and run() on it raises.
C14_NullEntry ==
    \A p \in AbsentParts :
        /\ \A force \in BOOLEAN :
              load_dataset(World(parts), server, p, None, force)
                 = [w |-> World(parts), data |-> None]
        /\ parts[p] = None
        /\ reads[p] = 0
        /\ gets[p] = 0
        /\ SelectData(p).exc = "ValueError"

\* A benchmark whose manifest has no test entry was constructed for all
\* partitions and then reloaded with force_reload = True; the other two
\* partitions are loaded.
C14_Witness ==
    /\ constructed
    /\ dataset_type = Member("all")
    /\ "test" \in AbsentParts
    /\ lastLoad.called
    /\ lastLoad.force
    /\ lastLoad.exc = NoExc
    /\ parts["train"] # None
    /\ parts["validate"] # None
    /\ parts["test"] = None

\* ------------------------------------------------------------------------
\* Properties of f1_score (SpecMeasure)
\* ------------------------------------------------------------------------

\* tokens with one occurrence of t taken out.
RECURSIVE WithoutOne(_, _)
WithoutOne(tokens, t) ==
    IF tokens = <<>> THEN <<>>
    ELSE IF Head(tokens) = t THEN Tail(tokens)
    ELSE <<Head(tokens)>> \o WithoutOne(Tail(tokens), t)

\* The size of the multiset intersection of two token lists, by pairing off
\* equal tokens.
RECURSIVE Paired(_, _)
Paired(p, g) ==
    IF p = <<>> THEN 0
    ELSE IF \E k \in 1..Len(g) : g[k] = Head(p)
    THEN 1 + Paired(Tail(p), WithoutOne(g, Head(p)))
    ELSE Paired(Tail(p), g)

\* 2PR/(P+R) with P = c/|p| and R = c/|g| is 2c/(|p|+|g|).
ReferenceF1(p, g) ==
    IF Paired(p, g) = 0 THEN <<0, 1>>
    ELSE Rat(2 * Paired(p, g), Len(p) + Len(g))

SameMultiset(p, g) ==
    /\ Len(p) = Len(g)
    /\ \A k \in 1..Len(p) : Count(p, p[k]) = Count(g, p[k])

PredictionTokens == Split(normalize_answer(m_prediction))

TruthTokens == Split(normalize_answer(m_ground_truth))

\* C15: f1_score equals the reference on the whitespace tokens of the two
\* normalized strings (0 when the multiset intersection is empty, else
\* 2PR/(P+R)); it is symmetric, lies in [0, 1], and is 1 exactly when the two
\* token multisets are equal and not empty.
C15_F1IsReference ==
    (mpc = "done") =>
        /\ m_f1 = Some(ReferenceF1(PredictionTokens, TruthTokens))
        /\ (Paired(PredictionTokens, TruthTokens) = 0) => (m_f1 = Some(<<0, 1>>))
        /\ m_f1 = Some(f1_score(m_ground_truth, m_prediction))
        /\ m_f1[1][1] >= 0
        /\ m_f1[1][1] <= m_f1[1][2]
        /\ (m_f1 = Some(<<1, 1>>))
              <=> (SameMultiset(PredictionTokens, TruthTokens) /\ PredictionTokens # <<>>)

\* A repeated token counts as often as both lists have it: two of the three
\* truth tokens are matched by the two prediction tokens.
C15_Witness ==
    /\ mpc = "done"
    /\ m_prediction = S_blue_blue
    /\ m_ground_truth = S_blue_light_blue
    /\ m_f1 = Some(<<4, 5>>)

\* C16 (as amended): f1_score("a b c", "b c d") is 0.8: the article "a" is
\* removed, so the tokens are b, c and b, c, d.
C16_Value ==
    (mpc = "done" /\ m_prediction = S_a_b_c /\ m_ground_truth = S_b_c_d) =>
        /\ PredictionTokens = << <<"b">>, <<"c">> >>
        /\ TruthTokens = << <<"b">>, <<"c">>, <<"d">> >>
        /\ m_f1 = Some(<<4, 5>>)

C16_Witness ==
    /\ mpc = "done"
    /\ m_prediction = S_a_b_c
    /\ m_ground_truth = S_b_c_d
    /\ m_f1 # None

\* C16 (as stated): f1_score("a b c", "b c d") is 0.5.
C16_Half ==
    (mpc = "done" /\ m_prediction = S_a_b_c /\ m_ground_truth = S_b_c_d) =>
        m_f1 = Some(<<1, 2>>)

\* ------------------------------------------------------------------------
\* Properties of DatasetType.from_value (SpecSelector)
\* ------------------------------------------------------------------------

\* The value of a member equals the lower-cased argument.
MatchingValues ==
    {MemberValues[k] : k \in {j \in 1..Len(MemberValues) : ValueChars[j] = Lower(fv_value)}}

\* C18: from_value returns a member of DatasetType for every string: the member
\* whose value is the lower-cased string if there is one, else the default,
\* which is the member VALIDATE when not supplied; a benchmark constructed with
\* what it returned then has the validate partition loaded.
C18_FromValueMember ==
    (fv_result # None) =>
        /\ fv_result[1] \in DatasetTypes
        /\ \A v \in MatchingValues : fv_result[1] = Member(v)
        /\ (MatchingValues = {}) =>
              /\ fv_result[1] = Member("validate")
              /\ (/\ constructed
                  /\ "hotpotqa" \in DOMAIN benchmarks
                  /\ "validate" \in DOMAIN benchmarks["hotpotqa"])
                    => parts["validate"] # None

\* ------------------------------------------------------------------------
\* Properties of Agent.llm and Agent.reset (SpecAgent)
\* ------------------------------------------------------------------------

\* The entries of the log after the last reset before entry k (all earlier
\* entries when there is none).
SinceReset(k) ==
    {j \in 1..(k - 1) : \A m \in j..(k - 1) : agentLog[m].op # "reset"}

\* Entry k is the first access since the last reset (or since the start).
FirstAccess(k) == SinceReset(k) = {}

\* An access since the last reset got a client.
HasClient(k) == \E j \in SinceReset(k) : agentLog[j].client # None

SameClientSinceReset(k) ==
    \A j \in SinceReset(k) :
        (agentLog[j].client # None /\ agentLog[k].client # None)
           => agentLog[j].client = agentLog[k].client

\* C17 (as amended): the factory is called by exactly the accesses that find
\* no client: the first access, the first access after each reset(), and an
\* access after accesses whose factory call raised; the accesses between two
\* resets that return a client return the same one; reset() constructs
\* nothing.
C17_LazyClient ==
    \A k \in 1..Len(agentLog) :
        /\ (agentLog[k].op = "reset") => (~agentLog[k].invoked /\ agentLog[k].client = None)
        /\ (agentLog[k].op = "llm") =>
              /\ agentLog[k].invoked = ~HasClient(k)
              /\ FirstAccess(k) => agentLog[k].invoked
              /\ (agentLog[k].exc = NoExc) = (agentLog[k].client # None)
              /\ SameClientSinceReset(k)

\* Two accesses returned one client, a reset followed, and the next access
\* called the factory and returned another client.
C17_Witness ==
    /\ Len(agentLog) >= 4
    /\ agentLog[1].op = "llm" /\ agentLog[1].invoked /\ agentLog[1].client # None
    /\ agentLog[2].op = "llm" /\ ~agentLog[2].invoked
    /\ agentLog[2].client = agentLog[1].client
    /\ agentLog[3].op = "reset"
    /\ agentLog[4].op = "llm" /\ agentLog[4].invoked
    /\ agentLog[4].client # None
    /\ agentLog[4].client[1].id # agentLog[1].client[1].id

\* C17 (as stated): the factory is called exactly once for the first access
\* and once for the first access after each reset(), and never otherwise; the
\* accesses between two resets return the same client; reset() constructs
\* nothing.
C17_OncePerReset ==
    \A k \in 1..Len(agentLog) :
        /\ (agentLog[k].op = "reset") => ~agentLog[k].invoked
        /\ (agentLog[k].op = "llm") =>
              /\ agentLog[k].invoked = FirstAccess(k)
              /\ SameClientSinceReset(k)

====
